---- MODULE Spec2Model ----
(***************************************************************************)
(* Order reconciliation dashboard: the paginated order view (keyset        *)
(* pagination over the order collection, browse and exact-match search)    *)
(* as a state machine.  The React component's state hooks are the          *)
(* variables; every handler together with the effect it triggers is one    *)
(* action; a pending `get(q)` is an entry of `inflight`, resolved by a     *)
(* separate action that reads the collection at that moment.               *)
(*                                                                         *)
(* The remote store is an external collaborator.  Its range query is       *)
(* modelled by its documented meaning: children ordered by (child value,   *)
(* key), endAt(value, key) an inclusive upper bound, equalTo an exact      *)
(* match, limitToLast(n) the n greatest.  Any request may also fail.       *)
(***************************************************************************)
EXTENDS Integers, Sequences, FiniteSets, TLC

\* ------------------------------------------------------------------ bounds
\* The page size of the paginated view, scaled down from 50.
PAGE_SIZE == 2
\* Record keys are 1..MaxCodes; their numeric order stands for the store's key order.
MaxCodes == 3
\* No more than this many requests are pending at once.
MaxInFlight == 2
\* A session issues at most this many requests (one more in a long session).
MaxFetches == 4

\* The absent value (null, undefined), and a key that holds no record.
Null == [ null |-> TRUE ]
NoRec == [ absent |-> TRUE ]

Codes == 1..MaxCodes

\* ------------------------------------------------------------------ values
\* A string is a sequence of pieces (characters; a date literal is one piece),
\* so that trimming is computed.
SP == " "
TxtA == <<"A">>
TxtB == <<"B">>
D0401 == <<"2024-04-01">>
D0501 == <<"2024-05-01">>

\* What the operator can have typed into the search box.
SearchInputs == { <<>>, <<SP>>, <<"A", SP>> }

SEARCH_FIELDS == <<"OrderNumber", "Material Number", "SalesDocument">>

SearchKeys == { SEARCH_FIELDS[i] : i \in 1..Len(SEARCH_FIELDS) }

Dates == { D0401, D0501 }

\* new Date(s).getTime(), in days, for the date strings of the model; a missing
\* or empty date is read as new Date(0).
DateTime(d) ==
    CASE d = D0401 -> 19814
      [] d = D0501 -> 19844
      [] OTHER -> 0

\* The store compares string child values lexicographically.
StrRank(v) ==
    CASE v = D0401 -> 1
      [] v = D0501 -> 2
      [] v = TxtA -> 3
      [] v = TxtB -> 4
      [] OTHER -> 0

Fields == { "OrderDate" } \cup SearchKeys

\* The stored form of the record under key c with order date d.  In the
\* collections of the model the order numbers alternate between A and B, every
\* material number is A and every sales document is B, so that a search for A
\* matches part of, all of, or none of the collection, depending on the field.
Record(c, d) ==
    [ f \in Fields |->
        CASE f = "OrderDate" -> d
          [] f = "OrderNumber" -> IF c % 2 = 1 THEN TxtA ELSE TxtB
          [] f = "Material Number" -> TxtA
          [] OTHER -> TxtB ]

\* The collections a session can start from: keys 1..n hold records, of any dates.
Stores ==
    { s \in [Codes -> { Record(c, d) : c \in Codes, d \in Dates } \cup {NoRec}] :
        \A c \in Codes :
            /\ s[c] # NoRec => \E d \in Dates : s[c] = Record(c, d)
            /\ s[c] # NoRec => \A b \in 1..c : s[b] # NoRec }

\* String.prototype.trim
RECURSIVE TrimStart(_)
TrimStart(t) ==
    IF t # <<>> /\ Head(t) = SP THEN TrimStart(Tail(t)) ELSE t

RECURSIVE TrimEnd(_)
TrimEnd(t) ==
    IF t # <<>> /\ t[Len(t)] = SP THEN TrimEnd(SubSeq(t, 1, Len(t) - 1)) ELSE t

Trim(t) == TrimEnd(TrimStart(t))


\* ------------------------------------------------------------------ the store's range query
\* The field a request orders by: the search field, or OrderDate when browsing.
OrderField(searchParams) ==
    IF searchParams # Null THEN searchParams.field ELSE "OrderDate"

\* The store's order of the children under orderByChild(field): by child value,
\* children of equal value by key.
Before(store, field, c1, c2) ==
    \/ StrRank(store[c1][field]) < StrRank(store[c2][field])
    \/ /\ StrRank(store[c1][field]) = StrRank(store[c2][field])
       /\ c1 < c2

\* endAt(value, key): the children at or before (value, key) in that order.
AtOrBefore(store, field, c, cursor) ==
    \/ StrRank(store[c][field]) < StrRank(cursor.value)
    \/ /\ StrRank(store[c][field]) = StrRank(cursor.value)
       /\ c <= cursor.key

\* limitToLast(n): the n last children of S in the store's order.
LimitToLast(store, field, S, n) ==
    { c \in S : Cardinality({ d \in S : Before(store, field, c, d) }) < n }

\* Variant: a page after the first asks for PAGE_SIZE records, like the first.
RunQuerySameLimit(store, page, currentCursor, searchParams) ==
    LET field == OrderField(searchParams)
        matching ==
            { c \in DOMAIN store :
                /\ store[c] # NoRec
                /\ searchParams # Null => store[c][field] = searchParams.text
                /\ currentCursor # Null => AtOrBefore(store, field, c, currentCursor) }
    IN  LimitToLast(store, field, matching, PAGE_SIZE)

\* The keys of the snapshot that get(q) returns for a request.
RunQuery(store, page, currentCursor, searchParams) ==
    LET field == OrderField(searchParams)
        matching ==
            { c \in DOMAIN store :
                /\ store[c] # NoRec
                /\ searchParams # Null => store[c][field] = searchParams.text
                /\ currentCursor # Null => AtOrBefore(store, field, c, currentCursor) }
        limit == IF currentCursor # Null THEN PAGE_SIZE + 1 ELSE PAGE_SIZE
    IN  LimitToLast(store, field, matching, limit)

\* ------------------------------------------------------------------ post-processing of a snapshot
\* { ...data[key], Code: key }
Loaded(store, c) ==
    [ f \in Fields \cup {"Code"} |-> IF f = "Code" THEN c ELSE store[c][f] ]

\* Object.keys(data).map(...): the snapshot's children in key order.
RECURSIVE KeysInOrder(_)
KeysInOrder(S) ==
    IF S = {} THEN <<>>
    ELSE LET c == CHOOSE x \in S : \A y \in S : x <= y
         IN  <<c>> \o KeysInOrder(S \ {c})

LoadedOrders(store, S) ==
    LET ks == KeysInOrder(S)
    IN  [ i \in 1..Len(ks) |-> Loaded(store, ks[i]) ]

\* The comparator of the local sort: dateB - dateA <= 0 keeps a before b.
KeepsOrder(a, b) == DateTime(b["OrderDate"]) - DateTime(a["OrderDate"]) <= 0

\* Array.prototype.sort is stable: an element goes behind every element that
\* the comparator does not put after it.
RECURSIVE InsertSorted(_, _)
InsertSorted(sorted, x) ==
    IF sorted = <<>> THEN <<x>>
    ELSE IF KeepsOrder(Head(sorted), x)
         THEN <<Head(sorted)>> \o InsertSorted(Tail(sorted), x)
         ELSE <<x>> \o sorted

RECURSIVE SortByDateDesc(_)
SortByDateDesc(os) ==
    IF os = <<>> THEN <<>>
    ELSE InsertSorted(SortByDateDesc(SubSeq(os, 1, Len(os) - 1)), os[Len(os)])

\* loadedOrders.filter(o => o.Code !== currentCursor.key)
RECURSIVE DropCursorKey(_, _)
DropCursorKey(os, currentCursor) ==
    IF os = <<>> THEN <<>>
    ELSE IF Head(os)["Code"] # currentCursor.key
         THEN <<Head(os)>> \o DropCursorKey(Tail(os), currentCursor)
         ELSE DropCursorKey(Tail(os), currentCursor)

\* Variant: the overlap with the previous page is not removed.
DeduplicatedKeepsOverlap(os, currentCursor) == os

\* Handle Pagination Overlap
Deduplicated(os, currentCursor) ==
    IF currentCursor # Null THEN DropCursorKey(os, currentCursor) ELSE os

\* The page shown for a non-empty snapshot S.
PageOf(store, S, currentCursor) ==
    Deduplicated(SortByDateDesc(LoadedOrders(store, S)), currentCursor)

\* Variant: a short page ends the listing whether or not a cursor was given.
NextPageAvailableShortEnds(loadedOrders, currentCursor) ==
    IF Len(loadedOrders) < PAGE_SIZE THEN FALSE ELSE TRUE

\* Check for "Next Page" availability
NextPageAvailable(loadedOrders, currentCursor) ==
    IF Len(loadedOrders) < PAGE_SIZE /\ currentCursor # Null THEN FALSE
    ELSE IF Len(loadedOrders) = 0 THEN FALSE
    ELSE TRUE

\* Variant: the cursor is taken from the first record of the page.
NextCursorFromFirst(loadedOrders, searchParams) ==
    LET firstItem == loadedOrders[1]
    IN  [ value |-> firstItem[OrderField(searchParams)], key |-> firstItem["Code"] ]

\* Prepare Cursor for Next Page
NextCursor(loadedOrders, searchParams) ==
    LET lastItem == loadedOrders[Len(loadedOrders)]
    IN  [ value |-> lastItem[OrderField(searchParams)], key |-> lastItem["Code"] ]

\* Variant: the new map is not a copy of the previous one.
MapSetFresh(m, k, v) == [ p \in {k} |-> v ]

\* newMap.set(page + 1, cursor)
MapSet(m, k, v) ==
    [ p \in DOMAIN m \cup {k} |-> IF p = k THEN v ELSE m[p] ]

\* new Map()
EmptyMap == <<>>


\* ------------------------------------------------------------------ state
VARIABLES
    db,           \* the collection order_management/master_recon_file: key -> record
    orders,       \* the displayed page
    loading,
    error,
    searchMode,
    searchField,  \* the field selector
    searchText,   \* the search box
    activeSearch, \* the submitted search {field, text}, or null when browsing
    currentPage,
    cursorStack,  \* page number -> cursor
    hasNextPage,
    inflight,     \* the fetchOrders calls awaiting get(q), in the order issued
    cursorOrigin, \* history: for each cursorStack entry, the searchParams of the fetch that set it
    maxVisited,   \* history: the highest currentPage since the active query last changed
    last,         \* history: the handler or completion that ran last
    firstShown,   \* history: page -> the records shown when the page was first visited under the active query
    fetchesLeft   \* the requests the session may still issue

\* The load-more view with the spreadsheet upload (src/pages/Reconciliation.tsx)
\* works on the same collection; its hooks, where a name is taken, are prefixed.
VARIABLES
    viewOrders,       \* orders: every record loaded so far, newest first
    viewLoading,      \* loading
    uploading,
    noMoreData,
    oldestLoadedKey,  \* Pagination cursor
    oldestLoadedDate,
    pending,          \* the awaited calls of the view: file reads, writes, fetches
    alert,            \* the text of the alert shown last
    lastIngest,       \* history: how the processFile call that ended last ended
    writes,           \* history: the last two batch writes that succeeded
    uploadsLeft       \* the files the session may still upload

viewVars ==
    << viewOrders, viewLoading, uploading, noMoreData, oldestLoadedKey, oldestLoadedDate,
       pending, alert, lastIngest, writes, uploadsLeft >>

\* The hooks of the paginated view, the collection apart.
pagedVars ==
    << orders, loading, error, searchMode, searchField, searchText, activeSearch,
       currentPage, cursorStack, hasNextPage, inflight, cursorOrigin, maxVisited, last, firstShown,
       fetchesLeft >>

vars ==
    << db, orders, loading, error, searchMode, searchField, searchText, activeSearch,
       currentPage, cursorStack, hasNextPage, inflight, cursorOrigin, maxVisited, last, firstShown,
       fetchesLeft,
       viewOrders, viewLoading, uploading, noMoreData, oldestLoadedKey, oldestLoadedDate,
       pending, alert, lastIngest, writes, uploadsLeft >>

\* A call fetchOrders(page, currentCursor, searchParams); selector is the value
\* of searchField in the render whose fetchOrders the effect called.
Request(page, currentCursor, searchParams, selector) ==
    [ page |-> page, cursor |-> currentCursor, searchParams |-> searchParams,
      selector |-> selector ]

\* The record of a completion: the call that completed and how.
Step(op, n, req, outcome) ==
    [ op |-> op, n |-> n, outcome |-> outcome,
      req |-> [ page |-> req.page, cursor |-> req.cursor,
                searchParams |-> req.searchParams ],
      fromLater |-> FALSE, fromCursors |-> FALSE, fromBrowse |-> FALSE ]

\* The record of a handler: its argument and outcome, and whether it started
\* on a later page, with cursors recorded, in browse mode.
Handled(op, n, outcome) ==
    [ op |-> op, n |-> n, outcome |-> outcome, req |-> Null,
      fromLater |-> currentPage > 1, fromCursors |-> cursorStack # EmptyMap,
      fromBrowse |-> activeSearch = Null ]

\* cursorStack.get(pageNumber), undefined as null
MapGet(m, k) == IF k \in DOMAIN m THEN m[k] ELSE Null

\* The effect on [currentPage, activeSearch], run on mount and after a render
\* in which one of the two changed: it calls fetchOrders, which sets loading,
\* clears the error and awaits get(q).
EffectCursor(page, stack) == IF page = 1 THEN Null ELSE MapGet(stack, page)

RunEffect(page, stack, search, selector) ==
    /\ Len(inflight) < MaxInFlight
    /\ fetchesLeft > 0
    /\ fetchesLeft' = fetchesLeft - 1
    /\ inflight' = Append(inflight, Request(page, EffectCursor(page, stack), search, selector))
    /\ loading' = TRUE
    /\ error' = Null

NoEffect == UNCHANGED << inflight, loading, error, fetchesLeft >>

\* The component after its first render and the effect that follows it.
Mounted ==
    /\ orders = <<>>
    /\ loading = TRUE
    /\ error = Null
    /\ searchMode = FALSE
    /\ searchField = SEARCH_FIELDS[1]
    /\ searchText = <<>>
    /\ activeSearch = Null
    /\ currentPage = 1
    /\ cursorStack = EmptyMap
    /\ hasNextPage = TRUE
    /\ inflight = << Request(1, Null, Null, SEARCH_FIELDS[1]) >>
    /\ cursorOrigin = EmptyMap
    /\ maxVisited = 1
    /\ firstShown = EmptyMap
    /\ last = [ op |-> "mount", n |-> 0, outcome |-> "none", req |-> Null,
                fromLater |-> FALSE, fromCursors |-> FALSE, fromBrowse |-> TRUE ]

\* The load-more view before it is rendered: the initial values of its hooks.
ViewIdle ==
    /\ viewOrders = <<>>
    /\ viewLoading = FALSE
    /\ uploading = FALSE
    /\ noMoreData = FALSE
    /\ oldestLoadedKey = Null
    /\ oldestLoadedDate = Null
    /\ pending = <<>>
    /\ alert = Null
    /\ lastIngest = Null
    /\ writes = <<>>
    /\ uploadsLeft = 0

Init ==
    /\ db \in Stores
    /\ fetchesLeft = MaxFetches - 1
    /\ Mounted
    /\ ViewIdle

\* ------------------------------------------------------------------ the search form
\* onChange of the field selector (disabled while loading)
SetSearchField(f) ==
    /\ ~loading
    /\ f # searchField
    /\ searchField' = f
    /\ UNCHANGED << viewVars, last, db, orders, loading, error, searchMode, searchText, activeSearch,
                    currentPage, cursorStack, hasNextPage, inflight, cursorOrigin,
                    maxVisited, firstShown, fetchesLeft >>

\* onChange of the search box
SetSearchText(t) ==
    /\ t # searchText
    /\ searchText' = t
    /\ UNCHANGED << viewVars, last, db, orders, loading, error, searchMode, searchField, activeSearch,
                    currentPage, cursorStack, hasNextPage, inflight, cursorOrigin,
                    maxVisited, firstShown, fetchesLeft >>

\* The Search button: disabled={loading || !searchText}
SearchEnabled == ~(loading \/ searchText = <<>>)

\* Variant: a submission that keeps the cursor table.
HandleSearchSubmitKeepsCursors ==
    /\ SearchEnabled
    /\ IF Trim(searchText) = <<>>
       THEN /\ last' = Handled("handleSearchSubmit", 0, "ignored")
            /\ UNCHANGED << currentPage, cursorStack, activeSearch, searchMode,
                            cursorOrigin, maxVisited, firstShown >>
            /\ NoEffect
       ELSE /\ currentPage' = 1
            /\ activeSearch' = [ field |-> searchField, text |-> Trim(searchText) ]
            /\ searchMode' = TRUE
            /\ maxVisited' = 1
            /\ firstShown' = EmptyMap
            /\ last' = Handled("handleSearchSubmit", 0, "accepted")
            /\ UNCHANGED << cursorStack, cursorOrigin >>
            /\ RunEffect(currentPage', cursorStack', activeSearch', searchField)
    /\ UNCHANGED << viewVars, db, orders, searchField, searchText, hasNextPage >>

\* Variant: the text is submitted as typed, blanks included.
HandleSearchSubmitUntrimmed ==
    /\ SearchEnabled
    /\ currentPage' = 1
    /\ cursorStack' = EmptyMap
    /\ activeSearch' = [ field |-> searchField, text |-> searchText ]
    /\ searchMode' = TRUE
    /\ cursorOrigin' = EmptyMap
    /\ maxVisited' = 1
    /\ firstShown' = EmptyMap
    /\ last' = Handled("handleSearchSubmit", 0, "accepted")
    /\ RunEffect(currentPage', cursorStack', activeSearch', searchField)
    /\ UNCHANGED << viewVars, db, orders, searchField, searchText, hasNextPage >>

\* handleSearchSubmit; setActiveSearch stores a new object, so the effect runs.
HandleSearchSubmit ==
    /\ SearchEnabled
    /\ IF Trim(searchText) = <<>>
       THEN /\ last' = Handled("handleSearchSubmit", 0, "ignored")
            /\ UNCHANGED << currentPage, cursorStack, activeSearch, searchMode,
                            cursorOrigin, maxVisited, firstShown >>
            /\ NoEffect
       ELSE /\ currentPage' = 1
            /\ cursorStack' = EmptyMap
            /\ activeSearch' = [ field |-> searchField, text |-> Trim(searchText) ]
            /\ searchMode' = TRUE
            /\ cursorOrigin' = EmptyMap
            /\ maxVisited' = 1
            /\ firstShown' = EmptyMap
            /\ last' = Handled("handleSearchSubmit", 0, "accepted")
            /\ RunEffect(currentPage', cursorStack', activeSearch', searchField)
    /\ UNCHANGED << viewVars, db, orders, searchField, searchText, hasNextPage >>

\* Variant: clearing the search stays on the current page.
ClearSearchKeepsPage ==
    /\ searchMode
    /\ searchText' = <<>>
    /\ searchMode' = FALSE
    /\ activeSearch' = Null
    /\ cursorStack' = EmptyMap
    /\ cursorOrigin' = EmptyMap
    /\ maxVisited' = 1
    /\ firstShown' = EmptyMap
    /\ last' = Handled("clearSearch", 0, "accepted")
    /\ RunEffect(currentPage, cursorStack', activeSearch', searchField)
    /\ UNCHANGED << viewVars, db, orders, searchField, hasNextPage, currentPage >>

\* clearSearch, behind the Clear button, which is rendered in search mode
ClearSearch ==
    /\ searchMode
    /\ searchText' = <<>>
    /\ searchMode' = FALSE
    /\ activeSearch' = Null
    /\ currentPage' = 1
    /\ cursorStack' = EmptyMap
    /\ cursorOrigin' = EmptyMap
    /\ maxVisited' = 1
    /\ firstShown' = EmptyMap
    /\ last' = Handled("clearSearch", 0, "accepted")
    /\ IF currentPage' # currentPage \/ activeSearch' # activeSearch
       THEN RunEffect(currentPage', cursorStack', activeSearch', searchField)
       ELSE NoEffect
    /\ UNCHANGED << viewVars, db, orders, searchField, hasNextPage >>


\* ------------------------------------------------------------------ navigation
\* Variant: page 1 needs a cursor like every other page.
GoToPageTargetNeedsCursor(pageNumber) ==
    IF MapGet(cursorStack, pageNumber) # Null THEN pageNumber ELSE currentPage

\* goToPage(pageNumber): the page it leaves currentPage at
GoToPageTarget(pageNumber) ==
    IF pageNumber = 1 THEN 1
    ELSE IF MapGet(cursorStack, pageNumber) # Null THEN pageNumber
    ELSE currentPage

\* goToPage(pageNumber) and the effect that follows a change of currentPage
GoToPage(pageNumber) ==
    /\ currentPage' = GoToPageTarget(pageNumber)
    /\ maxVisited' = IF currentPage' > maxVisited THEN currentPage' ELSE maxVisited
    /\ last' = Handled("goToPage", pageNumber,
                       IF pageNumber = 1 \/ MapGet(cursorStack, pageNumber) # Null
                       THEN "accepted" ELSE "rejected")
    /\ IF currentPage' # currentPage
       THEN RunEffect(currentPage', cursorStack, activeSearch, searchField)
       ELSE NoEffect
    /\ UNCHANGED << viewVars, db, orders, searchMode, searchField, searchText, activeSearch,
                    cursorStack, hasNextPage, cursorOrigin, firstShown >>

\* Pagination Controls are rendered when !error && orders.length > 0
ControlsShown == error = Null /\ Len(orders) > 0

Max(a, b) == IF a >= b THEN a ELSE b

\* renderPaginationNumbers: the page numbers that get a button
PageButtons ==
    LET clickableLimit == IF hasNextPage THEN currentPage + 1 ELSE currentPage
        start == Max(1, currentPage - 2)
        end == Max(start + 4, currentPage + 1)
    IN  { i \in start..end : i <= clickableLimit \/ i \in DOMAIN cursorStack }

\* The Previous button: disabled={currentPage === 1 || loading}
ClickPrevious ==
    /\ ControlsShown
    /\ ~(currentPage = 1 \/ loading)
    /\ GoToPage(currentPage - 1)

\* The Next button: disabled={!hasNextPage || loading}
ClickNext ==
    /\ ControlsShown
    /\ ~(~hasNextPage \/ loading)
    /\ GoToPage(currentPage + 1)

\* A page-number button
ClickPageNumber(i) ==
    /\ ControlsShown
    /\ i \in PageButtons
    /\ GoToPage(i)

\* ------------------------------------------------------------------ completion of a fetch
\* err.message of a store failure: the missing-index message, or another one.
MsgIndex == << "Index not defined, add .", "index", "On" >>
MsgDenied == << "Permission denied" >>
MsgNone == <<>>
ErrMessages == { MsgIndex, MsgDenied }

\* err.message.includes('index')
IncludesIndex(m) == \E i \in 1..Len(m) : m[i] = "index"

\* The catch block: the text given to setError
ErrorText(m, selector) ==
    IF m # MsgNone /\ IncludesIndex(m)
    THEN [ kind |-> "Missing Index", indexOn |-> << "OrderDate", selector >> ]
    ELSE [ kind |-> "message",
           text |-> IF m # MsgNone THEN m ELSE << "Unknown error occurred" >> ]

Remove(q, i) == SubSeq(q, 1, i - 1) \o SubSeq(q, i + 1, Len(q))

\* A completion is a visit when it is for the current page under the active
\* query; the first visit of a page is remembered.
IsVisit(req) == req.page = currentPage /\ req.searchParams = activeSearch

Visited(shown, req, loadedOrders) ==
    IF IsVisit(req) /\ req.page \notin DOMAIN shown
    THEN MapSet(shown, req.page, loadedOrders)
    ELSE shown

\* Variant: a response that is not for the current page and query is discarded.
FetchSucceedsDropsStale(i) ==
    LET req == inflight[i]
        S == RunQuery(db, req.page, req.cursor, req.searchParams)
        loadedOrders == PageOf(db, S, req.cursor)
        stale == req.page # currentPage \/ req.searchParams # activeSearch
    IN  /\ i \in 1..Len(inflight)
        /\ inflight' = Remove(inflight, i)
        /\ loading' = FALSE
        /\ IF stale
           THEN UNCHANGED << orders, hasNextPage, cursorStack, cursorOrigin >>
           ELSE IF S # {}
           THEN /\ hasNextPage' = NextPageAvailable(loadedOrders, req.cursor)
                /\ orders' = loadedOrders
                /\ IF Len(loadedOrders) > 0
                   THEN /\ cursorStack' = MapSet(cursorStack, req.page + 1,
                                                 NextCursor(loadedOrders, req.searchParams))
                        /\ cursorOrigin' = MapSet(cursorOrigin, req.page + 1, req.searchParams)
                   ELSE UNCHANGED << cursorStack, cursorOrigin >>
           ELSE /\ orders' = <<>>
                /\ hasNextPage' = FALSE
                /\ UNCHANGED << cursorStack, cursorOrigin >>
        /\ firstShown' = Visited(firstShown, req, orders')
        /\ last' = Step("fetchOrders", req.page, req, "ok")
        /\ UNCHANGED << viewVars, db, error, searchMode, searchField, searchText, activeSearch,
                        currentPage, maxVisited, fetchesLeft >>

\* get(q) resolves for the i-th pending call: the try block after the await.
\* The request, the snapshot and the processed list are bound once each.
FetchSucceeds(i) ==
    /\ i \in 1..Len(inflight)
    /\ \E req \in { inflight[i] } :
       \E S \in { RunQuery(db, req.page, req.cursor, req.searchParams) } :
       \E loadedOrders \in { IF S # {} THEN PageOf(db, S, req.cursor) ELSE <<>> } :
        /\ inflight' = Remove(inflight, i)
        /\ loading' = FALSE
        /\ IF S # {}
           THEN /\ hasNextPage' = NextPageAvailable(loadedOrders, req.cursor)
                /\ orders' = loadedOrders
                /\ IF Len(loadedOrders) > 0
                   THEN /\ cursorStack' = MapSet(cursorStack, req.page + 1,
                                                 NextCursor(loadedOrders, req.searchParams))
                        /\ cursorOrigin' = MapSet(cursorOrigin, req.page + 1, req.searchParams)
                   ELSE UNCHANGED << cursorStack, cursorOrigin >>
           ELSE /\ orders' = <<>>
                /\ hasNextPage' = FALSE
                /\ UNCHANGED << cursorStack, cursorOrigin >>
        /\ firstShown' = Visited(firstShown, req, loadedOrders)
        /\ last' = Step("fetchOrders", req.page, req, "ok")
        /\ UNCHANGED << viewVars, db, error, searchMode, searchField, searchText, activeSearch,
                        currentPage, maxVisited, fetchesLeft >>

\* Variant: a failure also forgets the cursors recorded so far.
FetchFailsDropsCursors(i, m) ==
    LET req == inflight[i]
    IN  /\ i \in 1..Len(inflight)
        /\ inflight' = Remove(inflight, i)
        /\ loading' = FALSE
        /\ error' = ErrorText(m, req.selector)
        /\ cursorStack' = EmptyMap
        /\ cursorOrigin' = EmptyMap
        /\ last' = Step("fetchOrders", req.page, req, "failed")
        /\ UNCHANGED << viewVars, db, orders, searchMode, searchField, searchText, activeSearch,
                        currentPage, hasNextPage, maxVisited, firstShown, fetchesLeft >>

\* get(q) rejects for the i-th pending call with message m: the catch block
FetchFails(i, m) ==
    LET req == inflight[i]
    IN  /\ i \in 1..Len(inflight)
        /\ inflight' = Remove(inflight, i)
        /\ loading' = FALSE
        /\ error' = ErrorText(m, req.selector)
        /\ last' = Step("fetchOrders", req.page, req, "failed")
        /\ UNCHANGED << viewVars, db, orders, searchMode, searchField, searchText, activeSearch,
                        currentPage, cursorStack, hasNextPage, cursorOrigin,
                        maxVisited, firstShown, fetchesLeft >>

\* ------------------------------------------------------------------ specification
Next ==
    \/ \E f \in SearchKeys : SetSearchField(f)
    \/ \E t \in SearchInputs : SetSearchText(t)
    \/ HandleSearchSubmit
    \/ ClearSearch
    \/ ClickPrevious
    \/ ClickNext
    \/ \E i \in PageButtons : ClickPageNumber(i)
    \/ \E i \in 1..MaxInFlight : FetchSucceeds(i)
    \/ \E i \in 1..MaxInFlight, m \in ErrMessages : FetchFails(i, m)

Spec == Init /\ [][Next]_vars

\* A long session over a full collection whose keys were assigned in date order:
\* one more request is allowed.
InitLong ==
    /\ db \in { s \in Stores :
                 /\ \A c \in Codes : s[c] # NoRec
                 /\ \A b, c \in Codes :
                        b < c => DateTime(s[b]["OrderDate"]) <= DateTime(s[c]["OrderDate"]) }
    /\ fetchesLeft = MaxFetches
    /\ Mounted
    /\ ViewIdle

SpecLong == InitLong /\ [][Next]_vars

\* A session long enough to leave a page and come back to it after two queries
\* have overlapped, over one full collection: two more requests are allowed.
InitRevisit ==
    /\ db = [ c \in Codes |-> Record(c, IF 2 * c <= MaxCodes THEN D0401 ELSE D0501) ]
    /\ fetchesLeft = MaxFetches + 1
    /\ Mounted
    /\ ViewIdle

SpecRevisit == InitRevisit /\ [][Next]_vars

\* ------------------------------------------------------------------ edits by another session
\* The keys of a collection that holds more records than a page and its cursor
\* record together.
EditCodes == 1..(PAGE_SIZE + 2)

\* handleUpdate of the edit form in another administrator's session, for the
\* order c whose OrderDate field was changed to d: update(ref(db, path), formData)
HandleUpdate(c, d) ==
    /\ c \in DOMAIN db
    /\ db[c] # NoRec
    /\ db[c]["OrderDate"] # d
    /\ db' = [ db EXCEPT ![c] = [ @ EXCEPT !["OrderDate"] = d ] ]
    /\ UNCHANGED << viewVars, pagedVars >>

\* The operator pages back and forth in browse mode while orders are edited.
InitEdit ==
    /\ db \in [ EditCodes -> { Record(c, d) : c \in EditCodes, d \in Dates } ]
    /\ \A c \in EditCodes : \E d \in Dates : db[c] = Record(c, d)
    /\ fetchesLeft = MaxFetches - 1
    /\ Mounted
    /\ ViewIdle

NextEdit ==
    \/ ClickPrevious
    \/ ClickNext
    \/ \E i \in 1..MaxInFlight : FetchSucceeds(i)
    \/ \E c \in EditCodes, d \in Dates : HandleUpdate(c, d)

SpecEdit == InitEdit /\ [][NextEdit]_vars

\* A forward walk: the operator waits for each page and clicks Next while it is
\* offered; when the listing has ended in browse mode he chooses a field, types
\* a text and submits it once, and walks through the result in the same way.
\* Every request is answered.
InitWalk ==
    /\ db \in Stores
    /\ fetchesLeft = MaxFetches + MaxFetches - 1
    /\ Mounted
    /\ ViewIdle

BrowseWalked == activeSearch = Null /\ inflight = <<>> /\ ~hasNextPage

NextWalk ==
    \/ ClickNext
    \/ \E i \in 1..MaxInFlight : FetchSucceeds(i)
    \/ /\ BrowseWalked
       /\ searchText = <<>>
       /\ searchField = SEARCH_FIELDS[1]
       /\ \E f \in SearchKeys : SetSearchField(f)
    \/ /\ BrowseWalked
       /\ searchText = <<>>
       /\ \E t \in SearchInputs : SetSearchText(t)
    \/ /\ BrowseWalked
       /\ HandleSearchSubmit

SpecWalk ==
    /\ InitWalk
    /\ [][NextWalk]_vars
    /\ WF_vars(ClickNext)
    /\ WF_vars(\E i \in 1..MaxInFlight : FetchSucceeds(i))


\* ------------------------------------------------------------------ the load-more view: values
\* The page size of the load-more view, scaled down from 100.
LOAD_PAGE_SIZE == 3
\* A spreadsheet has at most this many rows.
MaxRows == 2
\* A session uploads at most this many files.
MaxUploads == 2

\* The keys of the collection in a session of the load-more view.
LoadCodes == 1..(LOAD_PAGE_SIZE + 1)

\* A hook that holds a value (null is Null).
Some(v) == [ some |-> v ]

\* The canonical OrderRecord.
RecordFields ==
    { "OrderNumber", "SalesDocument", "OrderDate", "BatchNumber", "Year", "Material",
      "ClubName", "OrderType", "Status", "CDD", "UPSTrackingNumber", "Code" }

\* The empty string, and the Code cell that holds it.
EmptyString == <<>>
EmptyCode == 0

RECONCILIATION == << "RECONCILIATION" >>

\* The rows a sheet is made of, as sheet_to_json gives them: a mapping from the
\* headers of the cells that are filled to their values.
SheetRows ==
    { [ Code |-> 1, OrderDate |-> D0401 ],
      [ Code |-> 2 ],
      [ Code |-> 3, OrderDate |-> D0501, OrderType |-> << "ZOR" >>, Remark |-> TxtA ],
      [ OrderDate |-> D0501 ],
      [ Code |-> EmptyCode, OrderDate |-> D0401 ] }

\* The decoded first sheet of a file.
Sheets == UNION { [ 1..n -> SheetRows ] : n \in 0..MaxRows }

\* if (row.Code)
HasCode(row) == "Code" \in DOMAIN row /\ row["Code"] # EmptyCode

\* row.X || fallback
CellOr(row, f, fallback) ==
    IF f \in DOMAIN row /\ row[f] # EmptyString THEN row[f] ELSE fallback

\* Variant: OrderType defaults to the empty string like every other field.
RecordOfNoSentinel(row) ==
    [ f \in RecordFields |->
        CASE f = "Code" -> row["Code"]
          [] OTHER -> CellOr(row, f, EmptyString) ]

\* const record: OrderRecord = { ... }
RecordOf(row) ==
    [ f \in RecordFields |->
        CASE f = "Code" -> row["Code"]
          [] f = "OrderType" -> CellOr(row, f, RECONCILIATION)
          [] OTHER -> CellOr(row, f, EmptyString) ]

\* jsonData.forEach(row => ...): the paths written (by Code) and the count
RECURSIVE Collect(_, _)
Collect(rows, acc) ==
    IF rows = <<>> THEN acc
    ELSE Collect(Tail(rows),
                 IF HasCode(Head(rows))
                 THEN [ updates |-> MapSet(acc.updates, Head(rows)["Code"], RecordOf(Head(rows))),
                        count |-> acc.count + 1 ]
                 ELSE acc)

\* Variant: every row is counted, with or without a Code.
CollectedCountsRows(rows) ==
    [ updates |-> Collect(rows, [ updates |-> EmptyMap, count |-> 0 ]).updates,
      count |-> Len(rows) ]

\* const updates = {}; let count = 0; jsonData.forEach(...)
Collected(rows) == Collect(rows, [ updates |-> EmptyMap, count |-> 0 ])

\* Variant: a path that already holds a record is removed instead of overwritten.
ApplyUpdateRemovesExisting(store, updates) ==
    [ c \in LoadCodes |->
        IF c \in DOMAIN updates
        THEN IF store[c] = NoRec THEN updates[c] ELSE NoRec
        ELSE store[c] ]

\* update(ref(db), updates): every path of the batch is set, the others are kept
ApplyUpdate(store, updates) ==
    [ c \in LoadCodes |-> IF c \in DOMAIN updates THEN updates[c] ELSE store[c] ]

\* The collection with no record.
EmptyStore == [ c \in LoadCodes |-> NoRec ]

\* The collections a session of the load-more view can start from: none, or one
\* of more records than a page holds.
LoadStores ==
    { EmptyStore,
      [ c \in LoadCodes |->
          RecordOf([ Code |-> c,
                     OrderDate |-> IF 2 * c <= LOAD_PAGE_SIZE + 1 THEN D0401 ELSE D0501 ]) ] }

\* ------------------------------------------------------------------ the load-more view: queries
Present(store) == { c \in LoadCodes : store[c] # NoRec }

\* orderByChild('OrderDate'), limitToLast(PAGE_SIZE)
LatestKeys(store) ==
    LimitToLast(store, "OrderDate", Present(store), LOAD_PAGE_SIZE)

\* orderByChild('OrderDate'), endAt(oldestLoadedDate, oldestLoadedKey), limitToLast(PAGE_SIZE + 1)
OlderKeys(store, date, key) ==
    LimitToLast(store, "OrderDate",
                { c \in Present(store) :
                    AtOrBefore(store, "OrderDate", c, [ value |-> date, key |-> key ]) },
                LOAD_PAGE_SIZE + 1)

\* Object.keys(data).map(key => ({ ...data[key], Code: key }))
SnapshotOrders(store, S) ==
    LET ks == KeysInOrder(S)
    IN  [ i \in 1..Len(ks) |-> [ store[ks[i]] EXCEPT !["Code"] = ks[i] ] ]

\* new Date(s).getTime() is a number (not NaN) for the dates of the model only:
\* new Date('') is an invalid date.
IsDate(d) == d \in Dates

\* The comparator of the view: new Date(b.OrderDate).getTime() - new Date(a.OrderDate).getTime();
\* Array.prototype.sort reads a NaN result as +0.
CompareDates(a, b) ==
    IF IsDate(a["OrderDate"]) /\ IsDate(b["OrderDate"])
    THEN DateTime(b["OrderDate"]) - DateTime(a["OrderDate"])
    ELSE 0

\* The comparator is consistent on the elements: what it calls equal is transitive.
ConsistentComparator(os) ==
    \A i, j, k \in 1..Len(os) :
        (CompareDates(os[i], os[j]) = 0 /\ CompareDates(os[j], os[k]) = 0)
            => CompareDates(os[i], os[k]) = 0

RECURSIVE InsertByDate(_, _)
InsertByDate(sorted, x) ==
    IF sorted = <<>> THEN <<x>>
    ELSE IF CompareDates(Head(sorted), x) <= 0
         THEN <<Head(sorted)>> \o InsertByDate(Tail(sorted), x)
         ELSE <<x>> \o sorted

RECURSIVE StableSortByDate(_)
StableSortByDate(os) ==
    IF os = <<>> THEN <<>>
    ELSE InsertByDate(StableSortByDate(SubSeq(os, 1, Len(os) - 1)), os[Len(os)])

\* The same insertion from the other end.
RECURSIVE InsertByDateFromEnd(_, _)
InsertByDateFromEnd(sorted, x) ==
    IF sorted = <<>> THEN <<x>>
    ELSE IF CompareDates(sorted[Len(sorted)], x) <= 0
         THEN Append(sorted, x)
         ELSE Append(InsertByDateFromEnd(SubSeq(sorted, 1, Len(sorted) - 1), x),
                     sorted[Len(sorted)])

RECURSIVE SortByDateFromEnd(_)
SortByDateFromEnd(os) ==
    IF os = <<>> THEN <<>>
    ELSE InsertByDateFromEnd(SortByDateFromEnd(SubSeq(os, 1, Len(os) - 1)), os[Len(os)])

\* loadedOrders.sort(...): the stable sort under a consistent comparator; under
\* one that is not, the order is left to the engine, here to the end from which
\* its insertion looks for the place of a record.
SortOutcomes(os) ==
    IF ConsistentComparator(os)
    THEN { StableSortByDate(os) }
    ELSE { StableSortByDate(os), SortByDateFromEnd(os) }

\* newOrders.filter(o => o.Code !== oldestLoadedKey)
RECURSIVE DropKey(_, _)
DropKey(os, key) ==
    IF os = <<>> THEN <<>>
    ELSE IF Head(os)["Code"] # key
         THEN <<Head(os)>> \o DropKey(Tail(os), key)
         ELSE DropKey(Tail(os), key)

\* ------------------------------------------------------------------ the load-more view: alerts
SuccessAlert(count) == [ text |-> "Successfully processed ${count} records.", count |-> count ]
NoValidAlert == [ text |-> "No valid records found (checking 'Code' column)." ]
ErrorAlert == [ text |-> "Error processing file." ]

\* What can go wrong in reader.onload: XLSX.read throws, sheet_to_json throws,
\* update rejects.
Causes == { "parse", "decode", "write" }

\* The catch block of reader.onload: the alert for an error of the given cause
CatchAlert(cause) == ErrorAlert

\* ------------------------------------------------------------------ the load-more view: state
\* The paginated view is not rendered.
PagedIdle ==
    /\ orders = <<>>
    /\ loading = FALSE
    /\ error = Null
    /\ searchMode = FALSE
    /\ searchField = SEARCH_FIELDS[1]
    /\ searchText = <<>>
    /\ activeSearch = Null
    /\ currentPage = 1
    /\ cursorStack = EmptyMap
    /\ hasNextPage = TRUE
    /\ inflight = <<>>
    /\ cursorOrigin = EmptyMap
    /\ maxVisited = 1
    /\ firstShown = EmptyMap
    /\ last = [ op |-> "none", n |-> 0, outcome |-> "none", req |-> Null,
                fromLater |-> FALSE, fromCursors |-> FALSE, fromBrowse |-> TRUE ]
    /\ fetchesLeft = 0

\* The view after its first render and the effect on mount, which calls
\* fetchLatestOrders.
ViewMounted ==
    /\ viewOrders = <<>>
    /\ viewLoading = TRUE
    /\ uploading = FALSE
    /\ noMoreData = FALSE
    /\ oldestLoadedKey = Null
    /\ oldestLoadedDate = Null
    /\ pending = << [ op |-> "fetchLatestOrders" ] >>
    /\ alert = Null
    /\ lastIngest = Null
    /\ writes = <<>>
    /\ uploadsLeft = MaxUploads

InitLoad ==
    /\ db \in LoadStores
    /\ ViewMounted
    /\ PagedIdle

\* The i-th awaited call is of the given kind.
Awaits(i, op) == i \in 1..Len(pending) /\ pending[i].op = op

\* The record of a processFile call that ended.
Ingested(outcome, rows, count) ==
    [ outcome |-> outcome, rows |-> rows, count |-> count ]

\* ------------------------------------------------------------------ the load-more view: fetches
\* fetchLatestOrders resumes after get(q) with a snapshot
FetchLatestSucceeds(i) ==
    LET S == LatestKeys(db)
    IN  /\ Awaits(i, "fetchLatestOrders")
        /\ pending' = Remove(pending, i)
        /\ viewLoading' = FALSE
        /\ IF S # {}
           THEN \E loadedOrders \in SortOutcomes(SnapshotOrders(db, S)) :
                    /\ viewOrders' = loadedOrders
                    /\ oldestLoadedKey' = Some(loadedOrders[Len(loadedOrders)]["Code"])
                    /\ oldestLoadedDate' = Some(loadedOrders[Len(loadedOrders)]["OrderDate"])
           ELSE /\ viewOrders' = <<>>
                /\ UNCHANGED << oldestLoadedKey, oldestLoadedDate >>
        /\ UNCHANGED << db, pagedVars, uploading, noMoreData, alert, lastIngest, writes,
                        uploadsLeft >>

\* get(q) rejects in fetchLatestOrders or in loadMore: console.error, finally
FetchRejected(i) ==
    /\ Awaits(i, "fetchLatestOrders") \/ Awaits(i, "loadMore")
    /\ pending' = Remove(pending, i)
    /\ viewLoading' = FALSE
    /\ UNCHANGED << db, pagedVars, viewOrders, uploading, noMoreData, oldestLoadedKey,
                    oldestLoadedDate, alert, lastIngest, writes, uploadsLeft >>

\* The button "Load older records" is rendered (no search term, no status filter).
LoadOlderShown == ~noMoreData /\ ~viewLoading /\ Len(viewOrders) > 0

\* !oldestLoadedDate || !oldestLoadedKey
NoCursor ==
    \/ oldestLoadedKey = Null
    \/ oldestLoadedDate = Null
    \/ oldestLoadedDate = Some(EmptyString)

\* loadMore up to the await; without a cursor it returns at once
LoadMore ==
    /\ LoadOlderShown
    /\ ~NoCursor
    /\ Len(pending) < MaxInFlight
    /\ viewLoading' = TRUE
    /\ pending' = Append(pending, [ op |-> "loadMore", key |-> oldestLoadedKey.some,
                                    date |-> oldestLoadedDate.some ])
    /\ UNCHANGED << db, pagedVars, viewOrders, uploading, noMoreData, oldestLoadedKey,
                    oldestLoadedDate, alert, lastIngest, writes, uploadsLeft >>

\* loadMore resumes after get(q) with a snapshot
LoadMoreSucceeds(i) ==
    LET call == pending[i]
        S == OlderKeys(db, call.date, call.key)
        filteredNewOrders == DropKey(SnapshotOrders(db, S), call.key)
    IN  /\ Awaits(i, "loadMore")
        /\ pending' = Remove(pending, i)
        /\ viewLoading' = FALSE
        /\ IF S # {} /\ filteredNewOrders # <<>>
           THEN \E sorted \in SortOutcomes(filteredNewOrders) :
                    /\ viewOrders' = viewOrders \o sorted
                    /\ oldestLoadedKey' = Some(sorted[Len(sorted)]["Code"])
                    /\ oldestLoadedDate' = Some(sorted[Len(sorted)]["OrderDate"])
                    /\ UNCHANGED noMoreData
           ELSE /\ noMoreData' = TRUE
                /\ UNCHANGED << viewOrders, oldestLoadedKey, oldestLoadedDate >>
        /\ UNCHANGED << db, pagedVars, uploading, alert, lastIngest, writes, uploadsLeft >>

\* ------------------------------------------------------------------ the load-more view: upload
\* processFile(file): setUploading(true), reader.readAsBinaryString(file)
ProcessFile(rows) ==
    /\ uploadsLeft > 0
    /\ Len(pending) < MaxInFlight
    /\ uploadsLeft' = uploadsLeft - 1
    /\ uploading' = TRUE
    /\ pending' = Append(pending, [ op |-> "read", rows |-> rows ])
    /\ UNCHANGED << db, pagedVars, viewOrders, viewLoading, noMoreData, oldestLoadedKey,
                    oldestLoadedDate, alert, lastIngest, writes >>

\* Variant: a file without a valid row is written all the same.
ReaderLoadedWritesAlways(i) ==
    LET rows == pending[i].rows
        batch == Collected(rows)
    IN  /\ Awaits(i, "read")
        /\ pending' = [ pending EXCEPT ![i] =
                          [ op |-> "update", rows |-> rows, updates |-> batch.updates,
                            count |-> batch.count ] ]
        /\ UNCHANGED << uploading, alert, lastIngest >>
        /\ UNCHANGED << db, pagedVars, viewOrders, viewLoading, noMoreData, oldestLoadedKey,
                        oldestLoadedDate, writes, uploadsLeft >>

\* reader.onload up to `await update(...)`, or to its end when no row is valid
ReaderLoaded(i) ==
    LET rows == pending[i].rows
        batch == Collected(rows)
    IN  /\ Awaits(i, "read")
        /\ IF batch.count > 0
           THEN /\ pending' = [ pending EXCEPT ![i] =
                                  [ op |-> "update", rows |-> rows,
                                    updates |-> batch.updates, count |-> batch.count ] ]
                /\ UNCHANGED << uploading, alert, lastIngest >>
           ELSE /\ pending' = Remove(pending, i)
                /\ alert' = NoValidAlert
                /\ uploading' = FALSE
                /\ lastIngest' = Ingested("no valid records", rows, batch.count)
        /\ UNCHANGED << db, pagedVars, viewOrders, viewLoading, noMoreData, oldestLoadedKey,
                        oldestLoadedDate, writes, uploadsLeft >>

\* XLSX.read or sheet_to_json throws: catch, finally
ReaderThrows(i, cause) ==
    /\ Awaits(i, "read")
    /\ cause \in { "parse", "decode" }
    /\ pending' = Remove(pending, i)
    /\ alert' = CatchAlert(cause)
    /\ uploading' = FALSE
    /\ lastIngest' = Ingested(cause, pending[i].rows, 0)
    /\ UNCHANGED << db, pagedVars, viewOrders, viewLoading, noMoreData, oldestLoadedKey,
                    oldestLoadedDate, writes, uploadsLeft >>

\* Variant: a successful write is reported and the view is left as it is.
WriteSucceedsNoRefresh(i) ==
    LET call == pending[i]
        w == [ rows |-> call.rows, count |-> call.count, db |-> db' ]
    IN  /\ Awaits(i, "update")
        /\ db' = ApplyUpdate(db, call.updates)
        /\ alert' = SuccessAlert(call.count)
        /\ pending' = Remove(pending, i)
        /\ uploading' = FALSE
        /\ lastIngest' = Ingested("ok", call.rows, call.count)
        /\ writes' = IF writes = <<>> THEN << w >> ELSE << writes[Len(writes)], w >>
        /\ UNCHANGED << pagedVars, viewOrders, viewLoading, noMoreData, oldestLoadedKey,
                        oldestLoadedDate, uploadsLeft >>

\* update resolves: alert, fetchLatestOrders() up to its await, finally
WriteSucceeds(i) ==
    LET call == pending[i]
        w == [ rows |-> call.rows, count |-> call.count, db |-> db' ]
    IN  /\ Awaits(i, "update")
        /\ db' = ApplyUpdate(db, call.updates)
        /\ alert' = SuccessAlert(call.count)
        /\ viewLoading' = TRUE
        /\ pending' = Append(Remove(pending, i), [ op |-> "fetchLatestOrders" ])
        /\ uploading' = FALSE
        /\ lastIngest' = Ingested("ok", call.rows, call.count)
        /\ writes' = IF writes = <<>> THEN << w >> ELSE << writes[Len(writes)], w >>
        /\ UNCHANGED << pagedVars, viewOrders, noMoreData, oldestLoadedKey,
                        oldestLoadedDate, uploadsLeft >>

\* Variant: a failed write resets the pagination cursor.
WriteRejectedResetsCursor(i) ==
    /\ Awaits(i, "update")
    /\ pending' = Remove(pending, i)
    /\ alert' = CatchAlert("write")
    /\ uploading' = FALSE
    /\ lastIngest' = Ingested("write", pending[i].rows, pending[i].count)
    /\ oldestLoadedKey' = Null
    /\ oldestLoadedDate' = Null
    /\ UNCHANGED << db, pagedVars, viewOrders, viewLoading, noMoreData, writes, uploadsLeft >>

\* update rejects: catch, finally
WriteRejected(i) ==
    /\ Awaits(i, "update")
    /\ pending' = Remove(pending, i)
    /\ alert' = CatchAlert("write")
    /\ uploading' = FALSE
    /\ lastIngest' = Ingested("write", pending[i].rows, pending[i].count)
    /\ UNCHANGED << db, pagedVars, viewOrders, viewLoading, noMoreData, oldestLoadedKey,
                    oldestLoadedDate, writes, uploadsLeft >>

NextLoad ==
    \/ \E i \in 1..MaxInFlight : FetchLatestSucceeds(i)
    \/ \E i \in 1..MaxInFlight : FetchRejected(i)
    \/ LoadMore
    \/ \E i \in 1..MaxInFlight : LoadMoreSucceeds(i)
    \/ \E rows \in Sheets : ProcessFile(rows)
    \/ \E i \in 1..MaxInFlight : ReaderLoaded(i)
    \/ \E i \in 1..MaxInFlight, cause \in { "parse", "decode" } : ReaderThrows(i, cause)
    \/ \E i \in 1..MaxInFlight : WriteSucceeds(i)
    \/ \E i \in 1..MaxInFlight : WriteRejected(i)

SpecLoad == InitLoad /\ [][NextLoad]_vars


\* ------------------------------------------------------------------ properties
\* The step taken last is the successful completion of a fetch.
FetchedOk == last.op = "fetchOrders" /\ last.outcome = "ok"

\* The number of records in the collection.
StoreSize == Cardinality({ c \in Codes : db[c] # NoRec })

\* C1: after a successful fetch made with a non-null cursor, in browse or in
\* search mode, the displayed page holds no record whose Code is the cursor's key.
C1_NoCursorRecordOnPage ==
    (FetchedOk /\ last.req.cursor # Null) =>
        \A i \in 1..Len(orders) : orders[i]["Code"] # last.req.cursor.key

\* C1 witness: a fetch with a cursor succeeded, its snapshot held the cursor's
\* record, and the page shown holds the other records.
C1_Witness ==
    /\ FetchedOk
    /\ last.req.cursor # Null
    /\ last.req.cursor.key \in
           RunQuery(db, last.req.page, last.req.cursor, last.req.searchParams)
    /\ Len(orders) > 0

\* C2: after a successful fetch, hasNextPage is false when the de-duplicated
\* result is empty (an empty snapshot included), false when a cursor was given and
\* the result is shorter than PAGE_SIZE, and true in every other case.
C2_HasNextPage ==
    FetchedOk =>
        hasNextPage =
            ( ~(Len(orders) = 0)
              /\ ~(last.req.cursor # Null /\ Len(orders) < PAGE_SIZE) )

\* C2 witness: a first page shorter than PAGE_SIZE, fetched without a cursor,
\* is one of the other cases: hasNextPage is true.
C2_Witness ==
    /\ FetchedOk
    /\ last.req.cursor = Null
    /\ Len(orders) > 0
    /\ Len(orders) < PAGE_SIZE
    /\ hasNextPage

\* C3: the first page in browse mode over a collection of at least one and fewer
\* than PAGE_SIZE records ends with hasNextPage false.
C3_ShortFirstPageHasNoNext ==
    ( /\ FetchedOk
      /\ last.req.page = 1
      /\ last.req.cursor = Null
      /\ last.req.searchParams = Null
      /\ StoreSize >= 1
      /\ StoreSize < PAGE_SIZE ) => hasNextPage = FALSE

\* C4: handleSearchSubmit with text that is not empty once trimmed, from browse
\* mode at any page and with any cursors, makes the chosen field and the trimmed
\* text the active search, sets currentPage to 1 and empties the cursor table.
C4_SubmitResetsPagination ==
    [][ (HandleSearchSubmit /\ Trim(searchText) # <<>>) =>
          /\ activeSearch' = [ field |-> searchField, text |-> Trim(searchText) ]
          /\ searchMode'
          /\ currentPage' = 1
          /\ cursorStack' = EmptyMap ]_vars

\* C4 witness: a search was submitted from browse mode on a later page, with
\* cursors recorded, and the active text is the typed text without its blank.
C4_Witness ==
    /\ last.op = "handleSearchSubmit"
    /\ last.outcome = "accepted"
    /\ last.fromBrowse
    /\ last.fromLater
    /\ last.fromCursors
    /\ searchText = activeSearch.text \o <<SP>>
    /\ currentPage = 1
    /\ cursorStack = EmptyMap

\* C5: clearSearch, from any state, makes browse the active query (activeSearch
\* null, searchMode false), sets currentPage to 1 and empties the cursor table.
C5_ClearResetsPagination ==
    last.op = "clearSearch" =>
        /\ activeSearch = Null
        /\ ~searchMode
        /\ currentPage = 1
        /\ cursorStack = EmptyMap

\* C5 witness: the search was cleared on a later page with cursors recorded.
C5_Witness ==
    /\ last.op = "clearSearch"
    /\ ~last.fromBrowse
    /\ last.fromLater
    /\ last.fromCursors


\* C6: every cursor in the cursor table was produced by a fetch issued under the
\* active query; no cursor of an earlier query is paired with a newer one.
C6_CursorsBelongToActiveQuery ==
    \A p \in DOMAIN cursorStack : cursorOrigin[p] = activeSearch

\* C7: within one query session the set of pages that have a cursor never loses
\* an element; only handleSearchSubmit and clearSearch empty the table.
C7_TableNeverShrinksInSession ==
    [][ \/ DOMAIN cursorStack \subseteq DOMAIN cursorStack'
        \/ HandleSearchSubmit
        \/ ClearSearch ]_vars

\* C7 witness: a fetch has failed and the cursors recorded before it are kept.
C7_Witness ==
    /\ last.op = "fetchOrders"
    /\ last.outcome = "failed"
    /\ Cardinality(DOMAIN cursorStack) >= 2

\* C8: a successful fetch of a page whose de-duplicated result is not empty sets
\* the cursor of page + 1 to the order-field value (OrderDate in browse mode, the
\* search field in search mode) and the Code of the last record displayed; one
\* whose result is empty adds and changes no cursor.
C8_NextCursorRegistered ==
    [][ \A i \in 1..MaxInFlight :
          FetchSucceeds(i) =>
            IF orders' # <<>>
            THEN /\ inflight[i].page + 1 \in DOMAIN cursorStack'
                 /\ cursorStack'[inflight[i].page + 1] =
                      [ value |-> orders'[Len(orders')]
                                    [ IF inflight[i].searchParams # Null
                                      THEN inflight[i].searchParams.field
                                      ELSE "OrderDate" ],
                        key |-> orders'[Len(orders')]["Code"] ]
            ELSE cursorStack' = cursorStack ]_vars

\* C8 witness: a page of more than one record was fetched in search mode and
\* the cursor of the next page was set.
C8_Witness ==
    /\ FetchedOk
    /\ last.req.searchParams # Null
    /\ Len(orders) > 1
    /\ last.req.page + 1 \in DOMAIN cursorStack
    /\ cursorStack[last.req.page + 1].key = orders[Len(orders)]["Code"]

\* C9: goToPage(1) is accepted whatever the cursor table holds, sets currentPage
\* to 1 and leaves the active query alone, and the fetch it causes is issued for
\* page 1 with a null cursor under the active query.
C9_FirstPageAlwaysAccepted ==
    [][ /\ GoToPageTarget(1) = 1
        /\ GoToPage(1) =>
             /\ currentPage' = 1
             /\ activeSearch' = activeSearch
             /\ inflight' =
                  IF currentPage # 1
                  THEN Append(inflight, Request(1, Null, activeSearch, searchField))
                  ELSE inflight ]_vars

\* C9 witness: goToPage(1) on a later page in search mode; the page-1 fetch is pending.
C9_Witness ==
    /\ last.op = "goToPage"
    /\ last.n = 1
    /\ last.fromLater
    /\ activeSearch # Null
    /\ currentPage = 1
    /\ inflight # <<>>
    /\ inflight[Len(inflight)].page = 1
    /\ inflight[Len(inflight)].cursor = Null
    /\ inflight[Len(inflight)].searchParams = activeSearch

\* The page numbers goToPage is called with.
PageNumbers == 1..(MaxFetches + 5)

\* C10: goToPage(n) with n > 1 beyond the highest page visited in the session
\* plus one is rejected: currentPage, the cursor table, the displayed records
\* and the error are unchanged and no fetch is issued.
C10_UnvisitedPageRejected ==
    [][ \A n \in PageNumbers :
          (GoToPage(n) /\ n > 1 /\ n > maxVisited + 1) =>
            UNCHANGED << currentPage, cursorStack, orders, error, inflight >> ]_vars

\* The step taken last is the failure of a fetch.
FetchedFailed == last.op = "fetchOrders" /\ last.outcome = "failed"

\* C11: a fetchOrders call that fails, with the missing-index message or any
\* other, adds, changes and removes no entry of the cursor table.
C11_FailureKeepsCursorTable ==
    [][ \A i \in 1..MaxInFlight, m \in ErrMessages :
          FetchFails(i, m) => cursorStack' = cursorStack ]_vars

\* C11 witness: a fetch made with a cursor failed for a missing index while
\* the table held cursors, and the table still holds the cursor it was given.
C11_Witness ==
    /\ FetchedFailed
    /\ error # Null
    /\ error.kind = "Missing Index"
    /\ last.req.cursor # Null
    /\ MapGet(cursorStack, last.req.page) = last.req.cursor

\* C12: when a fetch fails for a missing index the error names the field the
\* failing query ordered by (OrderDate when browsing, the active search field
\* when searching, also after the selector was changed without resubmitting);
\* any other failure shows the underlying message.
C12_ErrorNamesQueryField ==
    (FetchedFailed /\ error # Null) =>
        IF error.kind = "Missing Index"
        THEN \E k \in 1..Len(error.indexOn) :
                 error.indexOn[k] = OrderField(last.req.searchParams)
        ELSE error.text \in ErrMessages

\* C13: at most one fetchOrders request is in flight at any time.
C13_OneRequestInFlight == Len(inflight) <= 1

\* The records and the flag that a successful completion of request req shows.
ShownFor(req) ==
    LET S == RunQuery(db, req.page, req.cursor, req.searchParams)
    IN  IF S # {}
        THEN [ orders |-> PageOf(db, S, req.cursor),
               hasNextPage |-> NextPageAvailable(PageOf(db, S, req.cursor), req.cursor) ]
        ELSE [ orders |-> <<>>, hasNextPage |-> FALSE ]

\* C14: the displayed records and hasNextPage after a successful completion are
\* those of the fetch that resolved last, also when it was issued before a fetch
\* that resolved earlier; and a step removes no pending fetch other than the one
\* that resolves.
C14_LastResolvedWins ==
    /\ [](FetchedOk =>
            /\ orders = ShownFor(last.req).orders
            /\ hasNextPage = ShownFor(last.req).hasNextPage)
    /\ [][ (\/ HandleSearchSubmit
            \/ ClearSearch
            \/ \E n \in PageNumbers : GoToPage(n)) =>
              SubSeq(inflight', 1, Len(inflight)) = inflight ]_vars

\* C14 witness: two fetches overlapped and both succeeded; the one issued first
\* (for a page or query that is no longer the current one) resolved last, and
\* the page shown is its page, not the page of the current query.
C14_Witness ==
    /\ FetchedOk
    /\ inflight = <<>>
    /\ error = Null
    /\ last.req.page # currentPage \/ last.req.searchParams # activeSearch
    /\ orders = ShownFor(last.req).orders
    /\ orders # ShownFor(Request(currentPage, EffectCursor(currentPage, cursorStack),
                                  activeSearch, searchField)).orders


\* ------------------------------------------------------------------ properties of the load-more view
\* The records that have a date are in descending order of it.
DescendingByDate(os) ==
    \A i, j \in 1..Len(os) :
        (i < j /\ IsDate(os[i]["OrderDate"]) /\ IsDate(os[j]["OrderDate"]))
            => DateTime(os[i]["OrderDate"]) >= DateTime(os[j]["OrderDate"])

\* C15: after every successful fetch the displayed records are in non-increasing
\* order of the active order field (all equal in the search field when
\* searching), and of two records the one with the later OrderDate comes first;
\* in the paginated view and in the load-more view.
C15_DisplayedDescending ==
    /\ FetchedOk =>
         /\ DescendingByDate(orders)
         /\ \A i, j \in 1..Len(orders) :
              i < j => StrRank(orders[i][OrderField(last.req.searchParams)])
                         >= StrRank(orders[j][OrderField(last.req.searchParams)])
    /\ DescendingByDate(viewOrders)

\* The rows of a sheet that have a Code.
AcceptedRows(rows) == { k \in 1..Len(rows) : HasCode(rows[k]) }

C17_IngestionIdempotent ==
    /\ (Len(writes) = 2 /\ writes[1].rows = writes[2].rows) =>
         /\ writes[2].db = writes[1].db
         /\ writes[2].count = writes[1].count
    /\ \A w \in 1..Len(writes) :
         \A k \in AcceptedRows(writes[w].rows) :
            /\ writes[w].db[writes[w].rows[k]["Code"]] # NoRec
            /\ writes[w].db[writes[w].rows[k]["Code"]]["Code"] = writes[w].rows[k]["Code"]

\* C17 witness: the same sheet, with a row that is accepted, was written twice
\* in succession to a collection that the first write changed.
C17_Witness ==
    /\ Len(writes) = 2
    /\ writes[1].rows = writes[2].rows
    /\ writes[1].count > 0
    /\ writes[1].db # EmptyStore
    /\ writes[1].db \notin LoadStores
    /\ db = writes[2].db

\* C18: when no row is accepted processFile reports "no valid records", writes
\* nothing, leaves the collection as it is and starts no refresh of the first page.
C18_NoValidRecordsNoWrite ==
    [][ \A i \in 1..MaxInFlight :
          (ReaderLoaded(i) /\ AcceptedRows(pending[i].rows) = {}) =>
            /\ alert' = NoValidAlert
            /\ db' = db
            /\ pending' = Remove(pending, i)
            /\ UNCHANGED << viewOrders, viewLoading, oldestLoadedKey, oldestLoadedDate >> ]_vars

\* C18 witness: a sheet of rows none of which has a Code ended with the report,
\* over a collection that holds records.
C18_Witness ==
    /\ lastIngest # Null
    /\ lastIngest.outcome = "no valid records"
    /\ Len(lastIngest.rows) = MaxRows
    /\ alert = NoValidAlert
    /\ db # EmptyStore

\* C19: a parse failure, a decode failure and a write failure end in alerts
\* that differ from one another.
C19_FailuresDistinct ==
    (lastIngest # Null /\ lastIngest.outcome \in Causes) =>
        \A other \in Causes \ { lastIngest.outcome } : alert # CatchAlert(other)

\* C20: an ingestion that fails, at the parse, the decoding or the write, leaves
\* the displayed records, the pagination cursor and the no-more-data flag as they
\* were and issues no fetch.
C20_FailureKeepsPagination ==
    [][ \A i \in 1..MaxInFlight :
          (\/ WriteRejected(i)
           \/ \E cause \in { "parse", "decode" } : ReaderThrows(i, cause)) =>
            /\ UNCHANGED << viewOrders, oldestLoadedKey, oldestLoadedDate, noMoreData,
                            viewLoading >>
            /\ pending' = Remove(pending, i) ]_vars

\* C20 witness: a write failed after a further page had been loaded, and the
\* records and the cursor of that page are still there.
C20_Witness ==
    /\ lastIngest # Null
    /\ lastIngest.outcome = "write"
    /\ alert = ErrorAlert
    /\ Len(viewOrders) > LOAD_PAGE_SIZE
    /\ oldestLoadedKey # Null
    /\ oldestLoadedKey = Some(viewOrders[Len(viewOrders)]["Code"])

\* The Codes of the records of a list.
CodesOf(os) == { os[k]["Code"] : k \in 1..Len(os) }

\* C21: an ingestion whose batch write succeeds starts a fetch of the first page
\* (no cursor, the latest records by OrderDate) and shows the view as loading;
\* when a first-page fetch resolves, the displayed records are replaced by the
\* first page of the collection as it is then.
C21_WriteThenFirstPage ==
    [][ \A i \in 1..MaxInFlight :
          /\ WriteSucceeds(i) =>
               /\ pending' # <<>>
               /\ pending'[Len(pending')] = [ op |-> "fetchLatestOrders" ]
               /\ Len(pending') = Len(pending)
               /\ viewLoading'
          /\ FetchLatestSucceeds(i) =>
               /\ CodesOf(viewOrders') = LatestKeys(db)
               /\ Len(viewOrders') = Cardinality(LatestKeys(db))
               /\ \A k \in 1..Len(viewOrders') :
                    viewOrders'[k] = db[viewOrders'[k]["Code"]] ]_vars

\* C21 witness: a write succeeded on a view in which loadMore had reached the
\* end, the fetch it started has resolved, and the view shows the first page
\* alone, with a record of the batch in it.
C21_Witness ==
    /\ lastIngest # Null
    /\ lastIngest.outcome = "ok"
    /\ pending = <<>>
    /\ db = writes[Len(writes)].db
    /\ noMoreData
    /\ CodesOf(viewOrders) = LatestKeys(db)
    /\ \E k \in AcceptedRows(lastIngest.rows) :
         /\ lastIngest.rows[k]["Code"] \in CodesOf(viewOrders)
         /\ db[lastIngest.rows[k]["Code"]] = RecordOf(lastIngest.rows[k])

\* The row of a sheet that sets the path of Code c last.
LastRowOf(rows, c) ==
    rows[CHOOSE k \in AcceptedRows(rows) :
            /\ rows[k]["Code"] = c
            /\ \A j \in AcceptedRows(rows) : rows[j]["Code"] = c => j <= k]

\* The record has the canonical fields and no other, the Code of the row, the
\* value of every cell the row fills, '' for a field the row lacks and the
\* sentinel for a lacking OrderType.
CanonicalFor(rec, row) ==
    /\ DOMAIN rec = RecordFields
    /\ rec["Code"] = row["Code"]
    /\ \A f \in RecordFields \ { "Code" } :
         IF f \in DOMAIN row
         THEN row[f] # EmptyString => rec[f] = row[f]
         ELSE rec[f] = IF f = "OrderType" THEN RECONCILIATION ELSE EmptyString

\* C22: every accepted row is written as a record of exactly the canonical
\* fields, in which a field the row lacks is the empty string, a lacking
\* OrderType is 'RECONCILIATION' and Code is the row's Code; a column outside
\* the canonical fields is not written.  Checked on the batch that awaits its
\* write and on the collection after the write.
C22_CanonicalRecord ==
    /\ \A i \in 1..Len(pending) :
         pending[i].op = "update" =>
            \A c \in DOMAIN pending[i].updates :
                CanonicalFor(pending[i].updates[c], LastRowOf(pending[i].rows, c))
    /\ \A w \in 1..Len(writes) :
         \A k \in AcceptedRows(writes[w].rows) :
            CanonicalFor(writes[w].db[writes[w].rows[k]["Code"]],
                         LastRowOf(writes[w].rows, writes[w].rows[k]["Code"]))

\* C22 witness: a sheet with a row that has a Code and nothing else, and a row
\* with an OrderType and a column that is not canonical, has been written: the
\* first record has the sentinel and an empty date, the second its own type.
C22_Witness ==
    /\ writes # <<>>
    /\ db = writes[Len(writes)].db
    /\ \E j, k \in AcceptedRows(writes[Len(writes)].rows) :
         LET rows == writes[Len(writes)].rows
         IN  /\ DOMAIN rows[j] = { "Code" }
             /\ db[rows[j]["Code"]]["OrderType"] = RECONCILIATION
             /\ db[rows[j]["Code"]]["OrderDate"] = EmptyString
             /\ "Remark" \in DOMAIN rows[k]
             /\ db[rows[k]["Code"]]["OrderType"] = rows[k]["OrderType"]
             /\ db[rows[k]["Code"]]["OrderType"] # RECONCILIATION

\* C23: handleSearchSubmit with a text that is empty once trimmed changes
\* nothing: the active search, the search mode, currentPage, the cursor table
\* and the displayed records stay as they are and no fetch is issued.
C23_BlankSubmitIgnored ==
    [][ (HandleSearchSubmit /\ Trim(searchText) = <<>>) =>
          UNCHANGED << activeSearch, searchMode, currentPage, cursorStack, orders,
                       hasNextPage, inflight, loading, error, fetchesLeft >> ]_vars

\* C23 witness: a text of blanks was submitted on a later page with cursors
\* recorded; the page, the cursors and the records shown are still there.
C23_Witness ==
    /\ last.op = "handleSearchSubmit"
    /\ last.outcome = "ignored"
    /\ searchText = <<SP>>
    /\ last.fromLater
    /\ last.fromCursors
    /\ currentPage > 1
    /\ cursorStack # EmptyMap
    /\ orders # <<>>

\* C24: a fetch for a page n >= 2 that was visited before under the active
\* query, over the same collection, shows the records that the first visit of
\* page n showed.
C24_RevisitShowsFirstVisit ==
    ( /\ FetchedOk
      /\ last.req.page >= 2
      /\ last.req.page = currentPage
      /\ last.req.searchParams = activeSearch
      /\ last.req.page \in DOMAIN firstShown ) =>
        orders = firstShown[last.req.page]

\* C25: over an unchanged collection, the pages visited under the active query,
\* in browse mode (records of equal OrderDate included) and in search mode, have
\* no record in common.
C25_NoRecordOnTwoPages ==
    \A p, q \in DOMAIN firstShown :
        p # q => CodesOf(firstShown[p]) \cap CodesOf(firstShown[q]) = {}

\* The records that match a query: all of them when browsing.
Matching(search) ==
    { c \in Codes : db[c] # NoRec /\ (search # Null => db[c][search.field] = search.text) }

\* The records shown on the pages visited under the active query.
ShownCodes == UNION { CodesOf(firstShown[p]) : p \in DOMAIN firstShown }

\* The walk under the active query has come to the page that offers no next page.
EndOfWalk ==
    /\ FetchedOk
    /\ inflight = <<>>
    /\ ~hasNextPage
    /\ last.req.page = currentPage
    /\ last.req.searchParams = activeSearch

\* C26: over an unchanged collection a walk forward from page 1 with
\* goToPage(currentPage + 1) comes, after finitely many pages, to a page with
\* hasNextPage false, and by then every record that matches the active query has
\* been shown on one of the pages 1..currentPage.
C26_WalkShowsEveryRecord ==
    /\ [](EndOfWalk =>
            /\ DOMAIN firstShown = 1..currentPage
            /\ ShownCodes = Matching(activeSearch))
    /\ (inflight # <<>> /\ inflight[1].page = 1) ~> EndOfWalk

\* C26 witness: a walk in search mode over a collection in which every record
\* matches has ended on a page later than the second, and every record was shown.
C26_Witness ==
    /\ EndOfWalk
    /\ activeSearch # Null
    /\ currentPage > PAGE_SIZE
    /\ StoreSize = MaxCodes
    /\ ShownCodes = Codes

\* C27: a displayed page holds at most PAGE_SIZE records, also when a write
\* between two page fetches has moved the record the cursor points at, so that
\* it is not among the PAGE_SIZE + 1 records of the result.
C27_PageHoldsAtMostPageSize == Len(orders) <= PAGE_SIZE

\* A control that is rendered and enabled takes the view to page n.
ControlTo(n) ==
    /\ ControlsShown
    /\ GoToPageTarget(n) = n
    /\ \/ n \in PageButtons
       \/ n = currentPage + 1 /\ ~(~hasNextPage \/ loading)
       \/ n = currentPage - 1 /\ ~(currentPage = 1 \/ loading)

\* C28: when the fetch completed last has set hasNextPage to false, no enabled
\* control (the Next button, a page-number button) moves currentPage to
\* currentPage + 1; and on every page after the first a control that goes back
\* to an earlier page is available.
C28_NoForwardPastEnd ==
    /\ (FetchedOk /\ ~hasNextPage) => ~ControlTo(currentPage + 1)
    /\ currentPage > 1 => \E n \in 1..(currentPage - 1) : ControlTo(n)

\* C29: loading is true exactly when a fetchOrders call is awaiting its answer;
\* in particular it is false once every call has been answered.
C29_LoadingIffInFlight == loading <=> inflight # <<>>

\* The view shows the first page of the collection, nothing is awaited, and the
\* collection holds records that are not displayed (all of them older).
FirstPageWithOlder ==
    /\ pending = <<>>
    /\ ~viewLoading
    /\ viewOrders # <<>>
    /\ Len(viewOrders) = Cardinality(LatestKeys(db))
    /\ CodesOf(viewOrders) = LatestKeys(db)
    /\ Present(db) \ CodesOf(viewOrders) # {}

\* C30: in the load-more view, when a refresh has put the first page on display
\* and the collection holds older records, "Load older records" is offered, also
\* when an earlier loadMore had reached the end and set noMoreData.
C30_LoadOlderAfterRefresh == FirstPageWithOlder => LoadOlderShown

====
